---- MODULE Spec2Model ----
(***************************************************************************)
(* Model of the Huffman codec of byte-whisper-compressor                   *)
(* (src/src/lib/huffman.ts, class HuffmanCompressor).                       *)
(*                                                                         *)
(* A JavaScript string of '0'/'1' characters is a sequence over {0, 1}.    *)
(* A JavaScript Map is a sequence of <<key, value>> pairs in insertion     *)
(* order (Map iteration order).  A Uint8Array is a sequence of 0..255,     *)
(* read with 0-based offsets through At.                                   *)
(***************************************************************************)
EXTENDS Integers, Sequences, FiniteSets, TLC

\* ------------------------------------------------------------------ bounds
\* longest input over the whole alphabet
MaxLen == 4
\* longest input made of copies of one byte value
MaxRun == 9

\* ------------------------------------------------------- JavaScript values
\* the value `undefined` (a read past the end of a typed array, an unset field)
Undefined == -1
\* the value NaN (arithmetic on `undefined`)
NaN == -100000

\* a < b in JavaScript: false as soon as one side is NaN
Lt(a, b) == a # NaN /\ b # NaN /\ a < b

\* Math.ceil(x / 8), NaN for undefined
Ceil8(x) == IF x = Undefined \/ x = NaN THEN NaN ELSE (x + 7) \div 8

\* compressedData[offset] of a Uint8Array: undefined past the end
At(arr, offset) == IF offset >= 0 /\ offset < Len(arr) THEN arr[offset + 1] ELSE Undefined

\* (x >> bit) & 1, where undefined converts to 0
BitOf(x, bit) == IF x = Undefined THEN 0 ELSE (x \div (2 ^ bit)) % 2

\* (b0 << 24) | (b1 << 16) | (b2 << 8) | b3: the bitwise operators give a
\* signed 32-bit integer, negative when the top bit of b0 is set
Int32BE(b0, b1, b2, b3) ==
    (IF b0 >= 128 THEN b0 - 256 ELSE b0) * 16777216 + b1 * 65536 + b2 * 256 + b3

\* ---------------------------------------------------------------- Map
MapHas(m, k) == \E i \in 1..Len(m) : m[i][1] = k

MapGet(m, k) == IF MapHas(m, k) THEN m[CHOOSE i \in 1..Len(m) : m[i][1] = k][2] ELSE Undefined

MapSet(m, k, v) ==
    IF MapHas(m, k)
    THEN [i \in 1..Len(m) |-> IF m[i][1] = k THEN <<k, v>> ELSE m[i]]
    ELSE Append(m, <<k, v>>)

\* ------------------------------------------------------- parseFrequencies
\* mutant: a byte value seen again keeps its count
RECURSIVE parseFrequenciesLoopNoIncrement(_, _, _)
parseFrequenciesLoopNoIncrement(data, i, frequencies) ==
    IF ~(i < Len(data)) THEN frequencies
    ELSE LET byte == At(data, i)
         IN IF MapHas(frequencies, byte)
            THEN parseFrequenciesLoopNoIncrement(data, i + 1, MapSet(frequencies, byte, MapGet(frequencies, byte)))
            ELSE parseFrequenciesLoopNoIncrement(data, i + 1, MapSet(frequencies, byte, 0 + 1))

RECURSIVE parseFrequenciesLoop(_, _, _)
parseFrequenciesLoop(data, i, frequencies) ==
    IF ~(i < Len(data)) THEN frequencies
    ELSE LET byte == At(data, i)
         IN IF MapHas(frequencies, byte)
            THEN parseFrequenciesLoop(data, i + 1, MapSet(frequencies, byte, MapGet(frequencies, byte) + 1))
            ELSE parseFrequenciesLoop(data, i + 1, MapSet(frequencies, byte, 0 + 1))

parseFrequencies(data) == parseFrequenciesLoop(data, 0, <<>>)

\* ------------------------------------------------------------- tree nodes
\* null / undefined child
Null == [kind |-> "null"]

\* { character, freq } with l and r unset
createNode(character, freq) ==
    [kind |-> "node", character |-> character, freq |-> freq, l |-> Null, r |-> Null]

\* ------------------------------------------------------------------- heap
\* Min_Heap: size and array (array[i] of the code is array[i + 1] here)
Min_Heap(size, array) == [size |-> size, array |-> array]

Swap(array, a, b) == [array EXCEPT ![a + 1] = array[b + 1], ![b + 1] = array[a + 1]]

\* mutant: the right child is never looked at
RECURSIVE HeapifyLeftOnly(_, _)
HeapifyLeftOnly(minHeap, idx) ==
    LET left  == 2 * idx + 1
        smallest == IF left < minHeap.size /\ minHeap.array[left + 1].freq < minHeap.array[idx + 1].freq
                    THEN left ELSE idx
    IN IF smallest # idx
       THEN HeapifyLeftOnly(Min_Heap(minHeap.size, Swap(minHeap.array, smallest, idx)), smallest)
       ELSE minHeap

RECURSIVE Heapify(_, _)
Heapify(minHeap, idx) ==
    LET left  == 2 * idx + 1
        right == 2 * idx + 2
        s1 == IF left < minHeap.size /\ minHeap.array[left + 1].freq < minHeap.array[idx + 1].freq
              THEN left ELSE idx
        smallest == IF right < minHeap.size /\ minHeap.array[right + 1].freq < minHeap.array[s1 + 1].freq
                    THEN right ELSE s1
    IN IF smallest # idx
       THEN Heapify(Min_Heap(minHeap.size, Swap(minHeap.array, smallest, idx)), smallest)
       ELSE minHeap

\* array[index] of a JavaScript array: undefined outside it
NodeAt(array, index) == IF index >= 0 /\ index < Len(array) THEN array[index + 1] ELSE Null

\* array[0] = node: an empty array grows to hold it
SetFirst(array, node) == IF array = <<>> THEN <<node>> ELSE [array EXCEPT ![1] = node]

\* mutant: the heap order is not restored after the root is replaced
extractMinNoHeapify(minHeap) ==
    LET temp == NodeAt(minHeap.array, 0)
        moved == SetFirst(minHeap.array, NodeAt(minHeap.array, minHeap.size - 1))
    IN <<temp, Min_Heap(minHeap.size - 1, moved)>>

\* extractMin returns the node and leaves the heap changed: <<node, heap>>
extractMin(minHeap) ==
    LET temp == NodeAt(minHeap.array, 0)
        moved == SetFirst(minHeap.array, NodeAt(minHeap.array, minHeap.size - 1))
    IN <<temp, Heapify(Min_Heap(minHeap.size - 1, moved), 0)>>

RECURSIVE insertSift(_, _, _)
insertSift(array, i, node) ==
    IF i # 0 /\ node.freq < array[((i - 1) \div 2) + 1].freq
    THEN insertSift([array EXCEPT ![i + 1] = array[((i - 1) \div 2) + 1]], (i - 1) \div 2, node)
    ELSE [array EXCEPT ![i + 1] = node]

\* mutant: the node is stored at the new last index and not sifted up
insertMinHeapNoSift(minHeap, node) ==
    Min_Heap(minHeap.size + 1, [minHeap.array EXCEPT ![minHeap.size + 1] = node])

insertMinHeap(minHeap, node) ==
    Min_Heap(minHeap.size + 1, insertSift(minHeap.array, minHeap.size, node))

RECURSIVE buildLoop(_, _)
buildLoop(minHeap, i) ==
    IF i >= 0 THEN buildLoop(Heapify(minHeap, i), i - 1) ELSE minHeap

createAndBuildMin_Heap(arr, freq, unique_size) ==
    LET minHeap == Min_Heap(unique_size, [i \in 1..unique_size |-> createNode(arr[i], freq[i])])
        n == minHeap.size - 1
    IN buildLoop(minHeap, (n - 1) \div 2)

\* ---------------------------------------------------- generateHuffmanTree
\* mutant: the first node extracted becomes the right child
RECURSIVE mergeLoopSwapped(_)
mergeLoopSwapped(minHeap) ==
    IF minHeap.size > 1
    THEN LET e1 == extractMin(minHeap)
             left == e1[1]
             e2 == extractMin(e1[2])
             right == e2[1]
             merged == [createNode(Undefined, left.freq + right.freq) EXCEPT !.l = right, !.r = left]
         IN mergeLoopSwapped(insertMinHeap(e2[2], merged))
    ELSE minHeap

RECURSIVE mergeLoop(_)
mergeLoop(minHeap) ==
    IF minHeap.size > 1
    THEN LET e1 == extractMin(minHeap)
             left == e1[1]
             e2 == extractMin(e1[2])
             right == e2[1]
             merged == [createNode(Undefined, left.freq + right.freq) EXCEPT !.l = left, !.r = right]
         IN mergeLoop(insertMinHeap(e2[2], merged))
    ELSE minHeap

\* the iterations of the merge loop one after the other: for each, the heap
\* it starts with, the two nodes extracted, the heap after each extraction,
\* the merged node and the heap after the insertion
RECURSIVE mergeSteps(_)
mergeSteps(minHeap) ==
    IF minHeap.size > 1
    THEN LET e1 == extractMin(minHeap)
             left == e1[1]
             e2 == extractMin(e1[2])
             right == e2[1]
             merged == [createNode(Undefined, left.freq + right.freq) EXCEPT !.l = left, !.r = right]
             after == insertMinHeap(e2[2], merged)
         IN <<[minHeap |-> minHeap, left |-> left, afterLeft |-> e1[2],
               right |-> right, afterRight |-> e2[2],
               merged |-> merged, after |-> after]>> \o mergeSteps(after)
    ELSE <<>>

\* the heap generateHuffmanTree starts its merge loop with
initialHeap(frequencies) ==
    createAndBuildMin_Heap([i \in 1..Len(frequencies) |-> frequencies[i][1]],
                           [i \in 1..Len(frequencies) |-> frequencies[i][2]],
                           Len(frequencies))

\* mutant: the single leaf hangs on the right of the synthesized root
generateHuffmanTreeRightLeaf(frequencies) ==
    LET chars == [i \in 1..Len(frequencies) |-> frequencies[i][1]]
        freqs == [i \in 1..Len(frequencies) |-> frequencies[i][2]]
        unique_size == Len(chars)
    IN IF unique_size = 1
       THEN [createNode(Undefined, freqs[1]) EXCEPT !.r = createNode(chars[1], freqs[1])]
       ELSE extractMin(mergeLoop(createAndBuildMin_Heap(chars, freqs, unique_size)))[1]

generateHuffmanTree(frequencies) ==
    LET chars == [i \in 1..Len(frequencies) |-> frequencies[i][1]]
        freqs == [i \in 1..Len(frequencies) |-> frequencies[i][2]]
        unique_size == Len(chars)
    IN IF unique_size = 1
       THEN [createNode(Undefined, freqs[1]) EXCEPT !.l = createNode(chars[1], freqs[1])]
       ELSE extractMin(mergeLoop(createAndBuildMin_Heap(chars, freqs, unique_size)))[1]

\* ---------------------------------------------------------- generateCodes
\* code || "0"
OrZero(code) == IF code = <<>> THEN <<0>> ELSE code

\* mutant: the descent into the left child adds no bit
RECURSIVE generateCodesNoLeftBit(_, _, _)
generateCodesNoLeftBit(root, code, huffmanCodes) ==
    IF root = Null THEN huffmanCodes
    ELSE IF root.character # Undefined
    THEN MapSet(huffmanCodes, root.character, OrZero(code))
    ELSE LET afterL == IF root.l # Null
                       THEN generateCodesNoLeftBit(root.l, code, huffmanCodes)
                       ELSE huffmanCodes
         IN IF root.r # Null
            THEN generateCodesNoLeftBit(root.r, Append(code, 1), afterL)
            ELSE afterL

\* returns this.huffmanCodes after the traversal
RECURSIVE generateCodes(_, _, _)
generateCodes(root, code, huffmanCodes) ==
    IF root = Null THEN huffmanCodes
    ELSE IF root.character # Undefined
    THEN MapSet(huffmanCodes, root.character, OrZero(code))
    ELSE LET afterL == IF root.l # Null
                       THEN generateCodes(root.l, Append(code, 0), huffmanCodes)
                       ELSE huffmanCodes
         IN IF root.r # Null
            THEN generateCodes(root.r, Append(code, 1), afterL)
            ELSE afterL

\* mutant: the textbook construction with no single-symbol policy, where the
\* root is the only leaf and its code is the empty string
buildCodesNoDegenerate(frequencies, huffmanCodes) ==
    IF Len(frequencies) = 1
    THEN MapSet(huffmanCodes, frequencies[1][1], <<>>)
    ELSE generateCodes(generateHuffmanTree(frequencies), <<>>, huffmanCodes)

\* Steps 2 and 3 of compress: the tree, then the codes set into
\* this.huffmanCodes as the call finds it
buildCodes(frequencies, huffmanCodes) ==
    generateCodes(generateHuffmanTree(frequencies), <<>>, huffmanCodes)

\* --------------------------------------------------------- generateHeader
\* one header byte holding code[i .. i+7], first bit in the high position
RECURSIVE codeByte(_, _, _)
codeByte(code, i, j) ==
    IF j < 8 /\ i + j < Len(code)
    THEN (IF code[i + j + 1] = 1 THEN 2 ^ (7 - j) ELSE 0) + codeByte(code, i, j + 1)
    ELSE 0

RECURSIVE codeBytes(_, _)
codeBytes(code, i) ==
    IF i < Len(code) THEN <<codeByte(code, i, 0)>> \o codeBytes(code, i + 8) ELSE <<>>

RECURSIVE headerEntries(_, _)
headerEntries(huffmanCodes, k) ==
    IF k > Len(huffmanCodes) THEN <<>>
    ELSE LET character == huffmanCodes[k][1]
             code == huffmanCodes[k][2]
         IN <<character, Len(code) % 256>> \o codeBytes(code, 0) \o headerEntries(huffmanCodes, k + 1)

\* mutant: the symbol count written in a single byte
generateHeaderCountByte(huffmanCodes, padding, originalSize) ==
    LET codeCount == Len(huffmanCodes)
    IN <<72, 70,
         (originalSize \div 16777216) % 256,
         (originalSize \div 65536) % 256,
         (originalSize \div 256) % 256,
         originalSize % 256,
         codeCount % 256>>
       \o headerEntries(huffmanCodes, 1)
       \o <<padding>>

generateHeader(huffmanCodes, padding, originalSize) ==
    LET codeCount == Len(huffmanCodes)
    IN <<72, 70,
         (originalSize \div 16777216) % 256,
         (originalSize \div 65536) % 256,
         (originalSize \div 256) % 256,
         originalSize % 256,
         (codeCount \div 256) % 256,
         codeCount % 256>>
       \o headerEntries(huffmanCodes, 1)
       \o <<padding>>

\* --------------------------------------------------------------- compress
\* Step 4: the sum of the code lengths of all input bytes
RECURSIVE totalBitsLoop(_, _, _)
totalBitsLoop(data, i, huffmanCodes) ==
    IF i < Len(data)
    THEN Len(MapGet(huffmanCodes, At(data, i))) + totalBitsLoop(data, i + 1, huffmanCodes)
    ELSE 0

\* compressed[byteIndex] = value on a Uint8Array: a write past the end is dropped
SetAt(arr, index, value) ==
    IF index >= 0 /\ index < Len(arr) THEN [arr EXCEPT ![index + 1] = value] ELSE arr

\* mutant: the bits fill currentByte from the low end
packBitLowFirst(code, j, st) ==
    LET bit == IF code[j + 1] = 1 THEN 1 ELSE 0
        currentByte == st.currentByte + bit * (2 ^ st.bitPosition)
        bitPosition == st.bitPosition + 1
    IN IF bitPosition = 8
       THEN [st EXCEPT !.compressed = SetAt(st.compressed, st.byteIndex, currentByte),
                       !.writes = Append(st.writes, st.byteIndex),
                       !.byteIndex = st.byteIndex + 1,
                       !.currentByte = 0,
                       !.bitPosition = 0]
       ELSE [st EXCEPT !.currentByte = currentByte, !.bitPosition = bitPosition]

\* mutant: byteIndex stays where it is after a full byte is written
packBitNoAdvance(code, j, st) ==
    LET bit == IF code[j + 1] = 1 THEN 1 ELSE 0
        currentByte == st.currentByte + bit * (2 ^ (7 - st.bitPosition))
        bitPosition == st.bitPosition + 1
    IN IF bitPosition = 8
       THEN [st EXCEPT !.compressed = SetAt(st.compressed, st.byteIndex, currentByte),
                       !.writes = Append(st.writes, st.byteIndex),
                       !.currentByte = 0,
                       !.bitPosition = 0]
       ELSE [st EXCEPT !.currentByte = currentByte, !.bitPosition = bitPosition]

\* Step 6, the body of the inner loop: bit j of code goes into currentByte,
\* and a full byte is written out; st holds compressed, byteIndex,
\* currentByte and bitPosition, and writes, the indices compressed[..] has
\* been assigned at so far, in order
packBit(code, j, st) ==
    LET bit == IF code[j + 1] = 1 THEN 1 ELSE 0
        currentByte == st.currentByte + bit * (2 ^ (7 - st.bitPosition))
        bitPosition == st.bitPosition + 1
    IN IF bitPosition = 8
       THEN [st EXCEPT !.compressed = SetAt(st.compressed, st.byteIndex, currentByte),
                       !.writes = Append(st.writes, st.byteIndex),
                       !.byteIndex = st.byteIndex + 1,
                       !.currentByte = 0,
                       !.bitPosition = 0]
       ELSE [st EXCEPT !.currentByte = currentByte, !.bitPosition = bitPosition]

\* "Write final byte if needed": the payload as compress returns it
finalByte(st) ==
    IF st.bitPosition > 0 THEN SetAt(st.compressed, st.byteIndex, st.currentByte)
    ELSE st.compressed

\* the index the final byte is assigned at, added to the indices written
finalWrite(st) ==
    IF st.bitPosition > 0 THEN Append(st.writes, st.byteIndex) ELSE st.writes

\* mutant: Math.floor in place of Math.ceil
payloadBytesFloor(totalBits) == totalBits \div 8

\* number of whole bytes for totalBits bits: Math.ceil(totalBits / 8)
payloadBytes(totalBits) == Ceil8(totalBits)

\* mutant: the outer % 8 forgotten, so a full last byte counts 8 padding bits
paddingOfNoWrap(totalBits) == 8 - (totalBits % 8)

\* (8 - (totalBits % 8)) % 8
paddingOf(totalBits) == (8 - (totalBits % 8)) % 8

\* mutant: the code table is not reset
clearNothing(huffmanCodes) == huffmanCodes

\* this.huffmanCodes.clear()
clear(huffmanCodes) == <<>>

\* mutant: the result holds this.huffmanCodes itself
newMapSame(huffmanCodes) == [shared |-> TRUE, entries |-> huffmanCodes]

\* new Map(this.huffmanCodes): a Map object of its own (not shared with the
\* instance) holding the entries of the moment
newMap(huffmanCodes) == [shared |-> FALSE, entries |-> huffmanCodes]

\* mutant: the empty-input check never fires
isEmptyInputNever(data) == FALSE

\* data.length === 0, on which compress throws
isEmptyInput(data) == Len(data) = 0

\* ------------------------------------------------------------- decompress
\* mutant: the bits of a code byte are taken from the low end
readCodeLowFirst(compressedData, offset, codeBytes_, codeLength) ==
    IF ~Lt(0, codeBytes_) THEN <<(<<>>), offset>>
    ELSE <<[k \in 1..codeLength |->
               BitOf(At(compressedData, offset + ((k - 1) \div 8)), (k - 1) % 8)],
           offset + codeBytes_>>

\* the code of one table entry, read from offset: the two loops take the
\* bits of codeBytes_ bytes, high bit first, until the code has codeLength
\* bits, so bit k of the code is bit 7 - (k-1) mod 8 of byte (k-1) div 8;
\* a NaN codeBytes_ reads nothing.  Gives <<code, offset after the read>>
readCode(compressedData, offset, codeBytes_, codeLength) ==
    IF ~Lt(0, codeBytes_) THEN <<(<<>>), offset>>
    ELSE <<[k \in 1..codeLength |->
               BitOf(At(compressedData, offset + ((k - 1) \div 8)), 7 - ((k - 1) % 8))],
           offset + codeBytes_>>

\* the loop over the uniqueCharCount table entries: <<codeToChar, offset>>.
\* Once offset is past the end of the buffer every remaining iteration reads
\* undefined twice, builds the empty code and sets codeToChar[""] = undefined,
\* so the rest of the loop is taken in one step.
RECURSIVE readTable(_, _, _, _, _)
readTable(compressedData, offset, i, uniqueCharCount, codeToChar) ==
    IF ~(i < uniqueCharCount) THEN <<codeToChar, offset>>
    ELSE IF offset >= Len(compressedData)
    THEN <<MapSet(codeToChar, <<>>, Undefined), offset + 2 * (uniqueCharCount - i)>>
    ELSE LET character == At(compressedData, offset)
             codeLength == At(compressedData, offset + 1)
             rc == readCode(compressedData, offset + 2, Ceil8(codeLength), codeLength)
         IN readTable(compressedData, rc[2], i + 1, uniqueCharCount, MapSet(codeToChar, rc[1], character))

\* compressedData.slice(offset)
SliceFrom(arr, offset) == IF offset >= Len(arr) THEN <<>> ELSE SubSeq(arr, offset + 1, Len(arr))

\* compressedPayload.length * 8 - padding
totalBitsOf(compressedPayload, padding) ==
    IF padding = Undefined THEN NaN ELSE Len(compressedPayload) * 8 - padding

\* the inner decoding loop over the bits 7..0 of one payload byte; st holds
\* the locals currentCode, bitsProcessed and decompressed
RECURSIVE decodeByte(_, _, _, _, _, _)
decodeByte(byte, totalBits, codeToChar, originalSize, bit, st) ==
    IF ~(bit >= 0 /\ Lt(st.bitsProcessed, totalBits)) THEN st
    ELSE LET bitValue == BitOf(byte, bit)
             code == Append(st.currentCode, bitValue)
         IN IF MapHas(codeToChar, code)
            THEN LET out == Append(st.decompressed, MapGet(codeToChar, code))
                 IN IF Len(out) >= originalSize
                    THEN [st EXCEPT !.currentCode = <<>>, !.decompressed = out]
                    ELSE decodeByte(byte, totalBits, codeToChar, originalSize, bit - 1,
                                    [currentCode   |-> <<>>,
                                     bitsProcessed |-> st.bitsProcessed + 1,
                                     decompressed  |-> out])
            ELSE decodeByte(byte, totalBits, codeToChar, originalSize, bit - 1,
                            [currentCode   |-> code,
                             bitsProcessed |-> st.bitsProcessed + 1,
                             decompressed  |-> st.decompressed])

\* the outer decoding loop over the payload bytes; gives the locals as the
\* loops leave them
RECURSIVE decodeLoop(_, _, _, _, _, _)
decodeLoop(compressedPayload, totalBits, codeToChar, originalSize, i, st) ==
    IF ~(i < Len(compressedPayload) /\ Lt(st.bitsProcessed, totalBits)) THEN st
    ELSE LET after == decodeByte(At(compressedPayload, i), totalBits, codeToChar, originalSize, 7, st)
         IN IF Len(after.decompressed) >= originalSize
            THEN after
            ELSE decodeLoop(compressedPayload, totalBits, codeToChar, originalSize, i + 1, after)

\* mutant: only the first byte of the marker is compared
missingMarkerFirstByte(compressedData) == At(compressedData, 0) # 72

\* compressedData[0] !== 0x48 || compressedData[1] !== 0x46
missingMarker(compressedData) == At(compressedData, 0) # 72 \/ At(compressedData, 1) # 70

\* the call decompress(compressedData): a thrown Error, or the
\* DecompressionResult together with the locals of the call: the table and
\* padding it read, the offset where the table ended (tableEnd) and the bit
\* accumulator as decoding left it (currentCode)
decompress(compressedData) ==
    IF Len(compressedData) < 8
    THEN [status |-> "threw", message |-> "Invalid compressed data: too short"]
    ELSE IF missingMarker(compressedData)
    THEN [status |-> "threw", message |-> "Invalid compressed data: missing header marker"]
    ELSE LET originalSize == Int32BE(At(compressedData, 2), At(compressedData, 3),
                                     At(compressedData, 4), At(compressedData, 5))
             uniqueCharCount == At(compressedData, 6) * 256 + At(compressedData, 7)
             table == readTable(compressedData, 8, 0, uniqueCharCount, <<>>)
             codeToChar == table[1]
             padding == At(compressedData, table[2])
             compressedPayload == SliceFrom(compressedData, table[2] + 1)
             totalBits == totalBitsOf(compressedPayload, padding)
             decoded == decodeLoop(compressedPayload, totalBits, codeToChar, originalSize, 0,
                                   [currentCode |-> <<>>, bitsProcessed |-> 0, decompressed |-> <<>>])
         IN [status           |-> "returned",
             decompressedData |-> decoded.decompressed,
             originalSize     |-> originalSize,
             codeToChar       |-> codeToChar,
             padding          |-> padding,
             tableEnd         |-> table[2],
             currentCode      |-> decoded.currentCode]

\* ------------------------------------------------------------ the inputs
\* the byte values of the exhaustively enumerated inputs
Bytes == {5, 65, 66}

\* every buffer over Bytes of length 0..MaxLen
ShortInputs == UNION {[1..n -> Bytes] : n \in 0..MaxLen}

\* n copies of one byte value, n up to MaxRun
RunInputs == {[i \in 1..n |-> b] : b \in Bytes, n \in 1..MaxRun}

\* inputs with frequencies 1, 2, .., k over k distinct byte values (deep trees)
LadderBytes == <<5, 65, 66, 67, 200, 255>>

MaxLadder == 4

RECURSIVE Ladder(_)
Ladder(k) == IF k = 0 THEN <<>> ELSE Ladder(k - 1) \o [i \in 1..k |-> LadderBytes[k]]

LadderInputs == {Ladder(k) : k \in 1..MaxLadder}

\* inputs over four byte values, each occurring 1 to MaxWeight times, in
\* blocks: every table of four frequencies in 1..MaxWeight, in every order
MaxWeight == 3

RECURSIVE Blocks(_, _)
Blocks(f, k) == IF k = 0 THEN <<>> ELSE Blocks(f, k - 1) \o [i \in 1..f[k] |-> LadderBytes[k]]

WeightedInputs == {Blocks(f, 4) : f \in [1..4 -> 1..MaxWeight]}

Inputs == ShortInputs \cup RunInputs \cup LadderInputs \cup WeightedInputs

\* the buffers of the calls made one after the other on one instance
ReuseInputs == {<<>>, <<5>>, <<65, 66>>, <<5, 65, 65>>}

\* the number of compress calls made on one instance
MaxCalls == 3

\* the values a corrupted artifact byte is overwritten with
TamperBytes == {0, 1, 128, 255}

\* ------------------------------------------------------------------- state
VARIABLES
    data,          \* the buffer the caller holds
    pc,            \* where the instance's caller is: "new", inside compress
                   \* ("codes", "sizes", "pack"), "compressed", "compressFailed",
                   \* "decompressed", "decompressFailed"
    huffmanCodes,  \* the instance field this.huffmanCodes
    c,             \* the locals of the compress call
    cres,          \* what compress returned or threw
    buf,           \* the buffer handed to decompress
    dres,          \* what decompress returned or threw
    earlier,       \* the CompressionResults of the earlier calls on the
                   \* instance, which the caller still holds, each with its input
    calls,         \* the number of buffers the caller has brought to the instance
    alt,           \* an instance of one of the two sorted-list HuffmanCompressor
                   \* variants (src/unnamed/part_001 and part_002) with the
                   \* locals of its compress and decompress calls
    ui             \* a mounted CompressionInterface or DecompressionInterface
                   \* with its FileUpload: the React state, the toasts and
                   \* downloads made, and the handleCompress / handleDecompress
                   \* run in flight

vars == <<data, pc, huffmanCodes, c, cres, buf, dres, earlier, calls, alt, ui>>

\* no call made yet
None == [status |-> "none"]

\* the locals of compress before the call assigns them
NoLocals ==
    [frequencies |-> <<>>, totalBits |-> 0, padding |-> 0, header |-> <<>>,
     compressed |-> <<>>, i |-> 0, j |-> 0,
     bitPosition |-> 0, currentByte |-> 0, byteIndex |-> 0, writes |-> <<>>]

\* the instance of huffman.ts at construction, no call made
NewInstance ==
    /\ pc = "new"
    /\ huffmanCodes = <<>>
    /\ c = NoLocals
    /\ cres = None
    /\ buf = <<>>
    /\ dres = None
    /\ earlier = <<>>
    /\ calls = 1

\* the variant instance at construction, before its caller has a buffer
AltNone ==
    [variant |-> "none", pc |-> "none", data |-> <<>>, huffmanCodes |-> <<>>]

\* no component mounted
UiNone == [component |-> "none"]

Init ==
    /\ data \in Inputs
    /\ NewInstance
    /\ alt = AltNone
    /\ ui = UiNone

\* compress(data) is entered: the empty-input check, this.huffmanCodes.clear()
\* and Step 1, the frequencies
CompressEnter ==
    /\ pc = "new"
    /\ IF isEmptyInput(data)
       THEN /\ cres' = [status |-> "threw", message |-> "Cannot compress empty data"]
            /\ pc' = "compressFailed"
            /\ UNCHANGED <<huffmanCodes, c>>
       ELSE /\ huffmanCodes' = clear(huffmanCodes)
            /\ c' = [c EXCEPT !.frequencies = parseFrequencies(data)]
            /\ pc' = "codes"
            /\ UNCHANGED cres
    /\ UNCHANGED <<data, buf, dres, earlier, calls, alt, ui>>

\* Steps 2 and 3: the tree and the codes
CompressCodes ==
    /\ pc = "codes"
    /\ huffmanCodes' = buildCodes(c.frequencies, huffmanCodes)
    /\ pc' = "sizes"
    /\ UNCHANGED <<data, c, cres, buf, dres, earlier, calls, alt, ui>>

\* Steps 4 and 5 and the start of Step 6: totalBits, padding, the header, and
\* the payload buffer allocated with compressedBytes zero bytes
CompressSizes ==
    /\ pc = "sizes"
    /\ LET totalBits == totalBitsLoop(data, 0, huffmanCodes)
           padding == paddingOf(totalBits)
           compressedBytes == payloadBytes(totalBits)
       IN c' = [c EXCEPT !.totalBits = totalBits,
                         !.padding = padding,
                         !.header = generateHeader(huffmanCodes, padding, Len(data)),
                         !.compressed = [k \in 1..compressedBytes |-> 0],
                         !.i = 0, !.j = 0,
                         !.bitPosition = 0, !.currentByte = 0, !.byteIndex = 0,
                         !.writes = <<>>]
    /\ pc' = "pack"
    /\ UNCHANGED <<data, huffmanCodes, cres, buf, dres, earlier, calls, alt, ui>>

\* Step 6: one turn of the packing loops, either the inner loop's body on bit
\* j of the code of data[i], or the inner loop's end and the move to data[i+1]
PackStep ==
    /\ pc = "pack"
    /\ c.i < Len(data)
    /\ LET code == MapGet(huffmanCodes, At(data, c.i))
       IN IF c.j < Len(code)
          THEN c' = [packBit(code, c.j, c) EXCEPT !.j = c.j + 1]
          ELSE c' = [c EXCEPT !.i = c.i + 1, !.j = 0]
    /\ UNCHANGED <<data, pc, huffmanCodes, cres, buf, dres, earlier, calls, alt, ui>>

\* the packing loops are over: the final byte, header and payload combined,
\* and the CompressionResult returned
CompressReturn ==
    /\ pc = "pack"
    /\ ~(c.i < Len(data))
    /\ LET compressed == finalByte(c)
           result == c.header \o compressed
       IN /\ c' = [c EXCEPT !.compressed = compressed, !.writes = finalWrite(c)]
          /\ cres' = [status         |-> "returned",
                      compressedData |-> result,
                      originalSize   |-> Len(data),
                      compressedSize |-> Len(result),
                      huffmanCodes   |-> huffmanCodes,
                      huffmanCodesMap |-> newMap(huffmanCodes),
                      header         |-> c.header]
    /\ pc' = "compressed"
    /\ UNCHANGED <<data, huffmanCodes, buf, dres, earlier, calls, alt, ui>>

\* compressor.decompress(b), which leaves this.huffmanCodes alone
DecompressCall(b) ==
    LET r == decompress(b)
    IN /\ buf' = b
       /\ dres' = r
       /\ pc' = IF r.status = "threw" THEN "decompressFailed" ELSE "decompressed"
       /\ UNCHANGED <<data, huffmanCodes, c, cres, earlier, calls, alt, ui>>

\* decompress of the artifact compress produced
DecompressArtifact ==
    /\ pc = "compressed"
    /\ DecompressCall(cres.compressedData)

\* decompress of the artifact with its last k payload bytes cut off
DecompressTruncated ==
    /\ pc = "compressed"
    /\ \E k \in 1..Len(c.compressed) :
          DecompressCall(SubSeq(cres.compressedData, 1, Len(cres.compressedData) - k))

\* decompress of the artifact with the byte at offset i overwritten by v
DecompressTampered ==
    /\ pc = "compressed"
    /\ \E i \in 0..(Len(cres.compressedData) - 1), v \in TamperBytes :
          /\ At(cres.compressedData, i) # v
          /\ DecompressCall([cres.compressedData EXCEPT ![i + 1] = v])

\* decompress of a buffer that is no artifact: the caller's raw input
DecompressInput ==
    /\ pc \in {"new", "compressFailed"}
    /\ DecompressCall(data)

\* the caller brings the next buffer to the same instance: the locals of the
\* ended calls are gone, the CompressionResult just returned stays with the
\* caller, and this.huffmanCodes is as the last call left it
NewCall ==
    /\ pc \in {"compressed", "compressFailed", "decompressed", "decompressFailed"}
    /\ calls < MaxCalls
    /\ \E b \in ReuseInputs : data' = b
    /\ pc' = "new"
    /\ calls' = calls + 1
    /\ earlier' = IF cres.status = "returned"
                  THEN Append(earlier, [data |-> data, result |-> cres])
                  ELSE earlier
    /\ c' = NoLocals
    /\ cres' = None
    /\ buf' = <<>>
    /\ dres' = None
    /\ UNCHANGED <<huffmanCodes, alt, ui>>

Next ==
    \/ CompressEnter
    \/ CompressCodes
    \/ CompressSizes
    \/ PackStep
    \/ CompressReturn
    \/ DecompressArtifact
    \/ DecompressTruncated
    \/ DecompressTampered
    \/ DecompressInput

Spec == Init /\ [][Next]_vars

\* one instance used for up to MaxCalls buffers in a row
ReuseInit == Init /\ data \in ReuseInputs

ReuseNext == Next \/ NewCall

ReuseSpec == ReuseInit /\ [][ReuseNext]_vars

\* ------------------------------------------- the sorted-list variants
\* src/unnamed/part_001 (lines 243-549) and src/unnamed/part_002 hold two
\* more HuffmanCompressor classes.  They build the tree from a sorted list
\* and decode by walking a tree rebuilt from the header, and they differ in
\* the header: "packed" (part_001) writes a 4-byte original size, a 1-byte
\* symbol count and the codes packed in bits; "raw" (part_002) writes the
\* symbol count minus one and the codes as the characters '0' and '1'.
Variants == {"packed", "raw"}

\* { character, count } with left and right unset
altCreateNode(character, count) ==
    [character |-> character, count |-> count, left |-> Null, right |-> Null]

\* mutant: the first argument becomes the left child
combineLeftFirst(a, b) ==
    [altCreateNode(Undefined, a.count + b.count) EXCEPT !.left = a, !.right = b]

\* combine(a, b): the parent has b on the left and a on the right
combine(a, b) ==
    [altCreateNode(Undefined, a.count + b.count) EXCEPT !.left = b, !.right = a]

\* nodes.sort((a, b) => a.count - b.count): ascending by count, nodes of equal
\* count in the order they had (Array.prototype.sort is stable), so a list
\* already in ascending order stays as it is
sortByCount(nodes) ==
    LET n == Len(nodes)
        rank == [i \in 1..n |->
                    1 + Cardinality({j \in 1..n : nodes[j].count < nodes[i].count})
                      + Cardinality({j \in 1..(i - 1) : nodes[j].count = nodes[i].count})]
    IN IF \A i \in 1..(n - 1) : nodes[i].count <= nodes[i + 1].count
       THEN nodes
       ELSE [r \in 1..n |-> nodes[CHOOSE i \in 1..n : rank[i] = r]]

\* the index the loop "while (insertIndex < nodes.length &&
\* nodes[insertIndex].count < parent.count) insertIndex++" stops at
insertIndexOf(nodes, parent) ==
    CHOOSE k \in 0..Len(nodes) :
        /\ k = Len(nodes) \/ ~(nodes[k + 1].count < parent.count)
        /\ \A m \in 0..(k - 1) : nodes[m + 1].count < parent.count

\* nodes.splice(insertIndex, 0, parent)
splice(nodes, insertIndex, parent) ==
    SubSeq(nodes, 1, insertIndex) \o <<parent>> \o SubSeq(nodes, insertIndex + 1, Len(nodes))

\* one iteration of the loop "while (nodes.length > 1)": the two first nodes
\* are shifted off, combined and the parent inserted in sorted position
mergeStep(nodes) ==
    LET left == nodes[1]
        right == nodes[2]
        rest == SubSeq(nodes, 3, Len(nodes))
        parent == combine(right, left)
    IN splice(rest, insertIndexOf(rest, parent), parent)

\* generateCodes of the variants: this.huffmanCodes after the traversal of
\* root, left with "0" before right with "1"
RECURSIVE altGenerateCodes(_, _, _)
altGenerateCodes(root, code, codes) ==
    IF root = Null THEN codes
    ELSE IF root.character # Undefined
    THEN MapSet(codes, root.character, OrZero(code))
    ELSE LET afterL == IF root.left # Null
                       THEN altGenerateCodes(root.left, Append(code, 0), codes)
                       ELSE codes
         IN IF Len(afterL) >= 0 /\ root.right # Null
            THEN altGenerateCodes(root.right, Append(code, 1), afterL)
            ELSE afterL

\* the largest buffer: every byte value once
AllBytes == [i \in 1..256 |-> i - 1]

\* longest of the short buffers brought to a variant
MaxAltLen == 3

\* the buffers brought to a variant
AltInputs == UNION {[1..n -> Bytes] : n \in 0..MaxAltLen} \cup {AllBytes}

\* the variant instance with a buffer to compress, no call made
AltNew(variant, b) ==
    [variant |-> variant, pc |-> "new", data |-> b, huffmanCodes |-> <<>>,
     frequencies |-> <<>>, i |-> 0, nodes |-> <<>>, root |-> Null,
     totalBits |-> 0, padding |-> 0, headerParts |-> <<>>, k |-> 0, header |-> <<>>,
     compressed |-> <<>>, j |-> 0, bitPosition |-> 0, currentByte |-> 0,
     byteIndex |-> 0, writes |-> <<>>, compressedData |-> <<>>,
     buf |-> <<>>, offset |-> 0, originalSize |-> 0, uniqueCharCount |-> 0,
     tree |-> <<>>, e |-> 0, dpadding |-> 0, payload |-> <<>>, current |-> <<>>,
     decompressed |-> <<>>, result |-> None]

AltInit ==
    /\ data = <<>>
    /\ NewInstance
    /\ \E variant \in Variants, b \in AltInputs : alt = AltNew(variant, b)
    /\ ui = UiNone

\* compress(data) is entered: the empty-input check, this.huffmanCodes.clear()
AltCompressEnter ==
    /\ alt.pc = "new"
    /\ IF Len(alt.data) = 0
       THEN alt' = [alt EXCEPT !.pc = "compressFailed"]
       ELSE alt' = [alt EXCEPT !.pc = "parse", !.huffmanCodes = <<>>,
                               !.frequencies = <<>>, !.i = 0]
    /\ UNCHANGED <<data, pc, huffmanCodes, c, cres, buf, dres, earlier, calls, ui>>

\* Step 1, parseFrequencies: one turn of its loop
AltParseStep ==
    /\ alt.pc = "parse"
    /\ alt.i < Len(alt.data)
    /\ LET byte == At(alt.data, alt.i)
           count == IF MapHas(alt.frequencies, byte) THEN MapGet(alt.frequencies, byte) ELSE 0
       IN alt' = [alt EXCEPT !.frequencies = MapSet(alt.frequencies, byte, count + 1),
                             !.i = alt.i + 1]
    /\ UNCHANGED <<data, pc, huffmanCodes, c, cres, buf, dres, earlier, calls, ui>>

\* Step 2, generateHuffmanTree up to its loop: the leaf nodes, sorted, and
\* the single character case
AltSortNodes ==
    /\ alt.pc = "parse"
    /\ ~(alt.i < Len(alt.data))
    /\ LET nodes == sortByCount([k \in 1..Len(alt.frequencies) |->
                                    altCreateNode(alt.frequencies[k][1], alt.frequencies[k][2])])
       IN IF Len(nodes) = 1
          THEN alt' = [alt EXCEPT !.pc = "codes",
                                  !.root = combine(nodes[1], altCreateNode(Undefined, 0))]
          ELSE alt' = [alt EXCEPT !.pc = "merge", !.nodes = nodes]
    /\ UNCHANGED <<data, pc, huffmanCodes, c, cres, buf, dres, earlier, calls, ui>>

\* one iteration of the loop that builds the tree bottom-up
AltMergeStep ==
    /\ alt.pc = "merge"
    /\ Len(alt.nodes) > 1
    /\ alt' = [alt EXCEPT !.nodes = mergeStep(alt.nodes)]
    /\ UNCHANGED <<data, pc, huffmanCodes, c, cres, buf, dres, earlier, calls, ui>>

\* the loop is over: generateHuffmanTree returns nodes[0] and its list is gone
AltTreeDone ==
    /\ alt.pc = "merge"
    /\ ~(Len(alt.nodes) > 1)
    /\ alt' = [alt EXCEPT !.pc = "codes", !.root = alt.nodes[1], !.nodes = <<>>]
    /\ UNCHANGED <<data, pc, huffmanCodes, c, cres, buf, dres, earlier, calls, ui>>

\* Step 3, generateCodes(root), the last use of the tree
AltCodes ==
    /\ alt.pc = "codes"
    /\ alt' = [alt EXCEPT !.pc = "bits", !.i = 0, !.totalBits = 0, !.root = Null,
                          !.huffmanCodes = altGenerateCodes(alt.root, <<>>, alt.huffmanCodes)]
    /\ UNCHANGED <<data, pc, huffmanCodes, c, cres, buf, dres, earlier, calls, ui>>

\* Step 4: one turn of the loop that sums the code lengths
AltBitsStep ==
    /\ alt.pc = "bits"
    /\ alt.i < Len(alt.data)
    /\ alt' = [alt EXCEPT !.totalBits = alt.totalBits + Len(MapGet(alt.huffmanCodes, At(alt.data, alt.i))),
                          !.i = alt.i + 1]
    /\ UNCHANGED <<data, pc, huffmanCodes, c, cres, buf, dres, earlier, calls, ui>>

\* new Uint8Array(headerParts): every number is taken modulo 256
toUint8Array(numbers) == [n \in 1..Len(numbers) |-> numbers[n] % 256]

\* generateHeader up to its loop: what is pushed on headerParts before the
\* entries: the original size and this.huffmanCodes.size in the packed
\* variant, this.huffmanCodes.size - 1 in the raw one
headerStart(variant, codeCount, originalSize) ==
    IF variant = "packed"
    THEN <<(originalSize \div 16777216) % 256,
           (originalSize \div 65536) % 256,
           (originalSize \div 256) % 256,
           originalSize % 256,
           codeCount>>
    ELSE <<codeCount - 1>>

\* the numbers pushed for one entry: character, code.length and the code,
\* packed in bits high bit first (packed) or as the character codes of '0'
\* and '1' (raw)
headerEntry(variant, character, code) ==
    <<character, Len(code)>> \o
    (IF variant = "packed"
     THEN [b \in 1..Ceil8(Len(code)) |-> codeByte(code, 8 * (b - 1), 0)]
     ELSE [b \in 1..Len(code) |-> 48 + code[b]])

\* Step 4 is over: padding, and Step 5, generateHeader, begins
AltSizes ==
    /\ alt.pc = "bits"
    /\ ~(alt.i < Len(alt.data))
    /\ alt' = [alt EXCEPT !.pc = "header",
                          !.padding = paddingOf(alt.totalBits),
                          !.headerParts = headerStart(alt.variant, Len(alt.huffmanCodes), Len(alt.data)),
                          !.k = 0]
    /\ UNCHANGED <<data, pc, huffmanCodes, c, cres, buf, dres, earlier, calls, ui>>

\* generateHeader: one turn of the loop over this.huffmanCodes
AltHeaderStep ==
    /\ alt.pc = "header"
    /\ alt.k < Len(alt.huffmanCodes)
    /\ alt' = [alt EXCEPT !.headerParts = alt.headerParts \o
                              headerEntry(alt.variant, alt.huffmanCodes[alt.k + 1][1],
                                          alt.huffmanCodes[alt.k + 1][2]),
                          !.k = alt.k + 1]
    /\ UNCHANGED <<data, pc, huffmanCodes, c, cres, buf, dres, earlier, calls, ui>>

\* generateHeader ends with the padding byte; Step 6 begins with the payload
\* buffer of compressedBytes zero bytes
AltHeaderDone ==
    /\ alt.pc = "header"
    /\ ~(alt.k < Len(alt.huffmanCodes))
    /\ alt' = [alt EXCEPT !.pc = "pack",
                          !.header = toUint8Array(Append(alt.headerParts, alt.padding)),
                          !.compressed = [n \in 1..payloadBytes(alt.totalBits) |-> 0],
                          !.i = 0, !.j = 0, !.bitPosition = 0, !.currentByte = 0,
                          !.byteIndex = 0, !.writes = <<>>]
    /\ UNCHANGED <<data, pc, huffmanCodes, c, cres, buf, dres, earlier, calls, ui>>

\* the inner packing loop: the bits j.. of one code
RECURSIVE packCode(_, _, _)
packCode(code, j, st) ==
    IF j < Len(code) THEN packCode(code, j + 1, packBit(code, j, st)) ELSE st

\* Step 6: one turn of the outer packing loop, the code of data[i]
AltPackStep ==
    /\ alt.pc = "pack"
    /\ alt.i < Len(alt.data)
    /\ alt' = [packCode(MapGet(alt.huffmanCodes, At(alt.data, alt.i)), 0, alt)
                  EXCEPT !.i = alt.i + 1]
    /\ UNCHANGED <<data, pc, huffmanCodes, c, cres, buf, dres, earlier, calls, ui>>

\* the final byte, header and payload combined, and the result returned
AltCompressReturn ==
    /\ alt.pc = "pack"
    /\ ~(alt.i < Len(alt.data))
    /\ LET compressed == finalByte(alt)
       IN alt' = [alt EXCEPT !.pc = "compressed",
                             !.compressed = compressed,
                             !.writes = finalWrite(alt),
                             !.headerParts = <<>>,
                             !.compressedData = alt.header \o compressed]
    /\ UNCHANGED <<data, pc, huffmanCodes, c, cres, buf, dres, earlier, calls, ui>>

\* the code of one raw table entry: codeLength characters, one per byte,
\* each taken as '0' (character code 48) or as anything else:
\* <<path, offset after the read>>
readRawCode(compressedData, offset, codeLength) ==
    IF ~Lt(0, codeLength) THEN <<(<<>>), offset>>
    ELSE <<[n \in 1..codeLength |-> IF At(compressedData, offset + n - 1) = 48 THEN 0 ELSE 1],
           offset + codeLength>>

\* the tree decompress rebuilds: its nodes, each named by the path of bits
\* that leads to it from the root (0 for left, 1 for right), in the order
\* they were created, with the character set on them or undefined:
\* <<path, character>>.  A child is missing when its path names no node.
rootOnly == <<(<<(<<>>), Undefined>>)>>

\* "Build tree path for this character": the nodes along code are created
\* where missing and the character is set on the last one
treeInsert(tree, code, character) ==
    LET missing == {n \in 1..Len(code) : ~MapHas(tree, SubSeq(code, 1, n))}
        first == IF missing = {} THEN Len(code) + 1
                 ELSE CHOOSE n \in missing : \A m \in missing : n <= m
        created == [n \in 1..(Len(code) + 1 - first) |-> <<SubSeq(code, 1, first + n - 1), Undefined>>]
    IN MapSet(tree \o created, code, character)

\* mutant: the padding bits of the last byte are decoded like the others
skipPaddingNever(isLast, bitCount, padding) == FALSE

\* i === compressedPayload.length - 1 && bitCount >= (8 - padding), false
\* when padding is undefined
skipPadding(isLast, bitCount, padding) ==
    isLast /\ padding # Undefined /\ bitCount >= 8 - padding

\* the inner decoding loop over the bits 7..0 of one payload byte; st holds
\* current (the path from the root to the node current points at),
\* bitCount, decompressed and threw (current became undefined and
\* current.character raised a TypeError); node is current.character
RECURSIVE altDecodeByte(_, _, _, _, _, _)
altDecodeByte(byte, bit, isLast, padding, root, st) ==
    IF ~(bit >= 0) \/ skipPadding(isLast, st.bitCount, padding) THEN st
    ELSE LET path == Append(st.current, BitOf(byte, bit))
             node == MapGet(root, path)
         IN IF ~MapHas(root, path) THEN [st EXCEPT !.threw = TRUE]
            ELSE altDecodeByte(byte, bit - 1, isLast, padding, root,
                    IF node # Undefined
                    THEN [current |-> <<>>, bitCount |-> st.bitCount + 1,
                          decompressed |-> Append(st.decompressed, node),
                          threw |-> FALSE]
                    ELSE [current |-> path, bitCount |-> st.bitCount + 1,
                          decompressed |-> st.decompressed, threw |-> FALSE])

\* decompress(compressedData) is entered with the artifact: the empty check,
\* the original size (packed) and the symbol count
AltDecompressEnter ==
    /\ alt.pc = "compressed"
    /\ LET b == alt.compressedData
       IN IF Len(b) = 0
          THEN alt' = [alt EXCEPT !.pc = "decompressFailed", !.buf = b]
          ELSE IF alt.variant = "packed"
          THEN alt' = [alt EXCEPT !.pc = "table", !.buf = b,
                                  !.originalSize = Int32BE(At(b, 0), At(b, 1), At(b, 2), At(b, 3)),
                                  !.uniqueCharCount = At(b, 4),
                                  !.offset = 5,
                                  !.tree = rootOnly, !.e = 0]
          ELSE alt' = [alt EXCEPT !.pc = "table", !.buf = b,
                                  !.uniqueCharCount = At(b, 0) + 1,
                                  !.offset = 1,
                                  !.tree = rootOnly, !.e = 0]
    /\ UNCHANGED <<data, pc, huffmanCodes, c, cres, buf, dres, earlier, calls, ui>>

\* one turn of the loop that rebuilds the tree from the table entries
AltTableStep ==
    /\ alt.pc = "table"
    /\ alt.e < alt.uniqueCharCount
    /\ LET character == At(alt.buf, alt.offset)
           codeLength == At(alt.buf, alt.offset + 1)
           rc == IF alt.variant = "packed"
                 THEN readCode(alt.buf, alt.offset + 2, Ceil8(codeLength), codeLength)
                 ELSE readRawCode(alt.buf, alt.offset + 2, codeLength)
       IN alt' = [alt EXCEPT !.tree = treeInsert(alt.tree, rc[1], character),
                             !.offset = rc[2],
                             !.e = alt.e + 1]
    /\ UNCHANGED <<data, pc, huffmanCodes, c, cres, buf, dres, earlier, calls, ui>>

\* the table is read: the padding byte, the payload, decoding begins at the root
AltTableDone ==
    /\ alt.pc = "table"
    /\ ~(alt.e < alt.uniqueCharCount)
    /\ alt' = [alt EXCEPT !.pc = "decode",
                          !.dpadding = At(alt.buf, alt.offset),
                          !.payload = SliceFrom(alt.buf, alt.offset + 1),
                          !.offset = alt.offset + 1,
                          !.current = <<>>, !.decompressed = <<>>, !.i = 0]
    /\ UNCHANGED <<data, pc, huffmanCodes, c, cres, buf, dres, earlier, calls, ui>>

\* one turn of the outer decoding loop: the bits of payload byte i
AltDecodeStep ==
    /\ alt.pc = "decode"
    /\ alt.i < Len(alt.payload)
    /\ LET st == altDecodeByte(At(alt.payload, alt.i), 7, alt.i = Len(alt.payload) - 1,
                               alt.dpadding, alt.tree,
                               [current |-> alt.current, bitCount |-> 0,
                                decompressed |-> alt.decompressed, threw |-> FALSE])
       IN IF st.threw
          THEN alt' = [alt EXCEPT !.pc = "decompressFailed",
                                  !.result = [status |-> "threw", message |-> "TypeError"]]
          ELSE alt' = [alt EXCEPT !.current = st.current,
                                  !.decompressed = st.decompressed,
                                  !.i = alt.i + 1]
    /\ UNCHANGED <<data, pc, huffmanCodes, c, cres, buf, dres, earlier, calls, ui>>

\* the payload is used up: the DecompressionResult, whose originalSize is the
\* header's field (packed) or decompressed.length (raw)
AltDecompressReturn ==
    /\ alt.pc = "decode"
    /\ ~(alt.i < Len(alt.payload))
    /\ alt' = [alt EXCEPT !.pc = "decompressed",
                          !.result = [status |-> "returned",
                                      decompressedData |-> alt.decompressed,
                                      originalSize |-> IF alt.variant = "packed"
                                                       THEN alt.originalSize
                                                       ELSE Len(alt.decompressed)]]
    /\ UNCHANGED <<data, pc, huffmanCodes, c, cres, buf, dres, earlier, calls, ui>>

AltNext ==
    \/ AltCompressEnter
    \/ AltParseStep
    \/ AltSortNodes
    \/ AltMergeStep
    \/ AltTreeDone
    \/ AltCodes
    \/ AltBitsStep
    \/ AltSizes
    \/ AltHeaderStep
    \/ AltHeaderDone
    \/ AltPackStep
    \/ AltCompressReturn
    \/ AltDecompressEnter
    \/ AltTableStep
    \/ AltTableDone
    \/ AltDecodeStep
    \/ AltDecompressReturn

AltSpec == AltInit /\ [][AltNext]_vars

\* ------------------------------------------------- the two interfaces
\* CompressionInterface (src/unnamed/part_000) and DecompressionInterface
\* (src/unnamed/part_001, lines 1-216) are React components of one shape:
\* a FileUpload with a selectedFile of its own, the component's selectedFile,
\* busy flag, result and processingTime, and an async click handler that
\* reads the file, runs the codec of src/src/lib/huffman.ts on a fresh
\* HuffmanCompressor inside a setTimeout callback, and awaits the promise
\* that callback resolves.

\* Step 6 of compress as one function: the packing loops from data[i] on
RECURSIVE packData(_, _, _, _)
packData(b, i, table, st) ==
    IF i < Len(b)
    THEN packData(b, i + 1, table, packCode(MapGet(table, At(b, i)), 0, st))
    ELSE st

\* compressor.compress(data) on a new HuffmanCompressor, from the empty
\* check to the CompressionResult
compress(b) ==
    IF isEmptyInput(b)
    THEN [status |-> "threw", message |-> "Cannot compress empty data"]
    ELSE LET table == buildCodes(parseFrequencies(b), clear(<<>>))
             totalBits == totalBitsLoop(b, 0, table)
             padding == paddingOf(totalBits)
             header == generateHeader(table, padding, Len(b))
             st == packData(b, 0, table,
                            [NoLocals EXCEPT !.compressed = [k \in 1..payloadBytes(totalBits) |-> 0]])
             result == header \o finalByte(st)
         IN [status         |-> "returned",
             compressedData |-> result,
             originalSize   |-> Len(b),
             compressedSize |-> Len(result),
             huffmanCodes   |-> table,
             header         |-> header]

Components == {"CompressionInterface", "DecompressionInterface"}

\* the files the user has at hand: a File is its name, in pieces so that
\* endsWith and slice can be told, and its content
CompressFiles ==
    {[name |-> <<"empty.txt">>, content |-> <<>>],
     [name |-> <<"a.txt">>, content |-> <<5, 65, 65>>],
     [name |-> <<"b.bin">>, content |-> <<66, 5>>]}

DecompressFiles ==
    {[name |-> <<"a.txt", ".hzip">>, content |-> compress(<<5, 65, 65>>).compressedData],
     [name |-> <<"b.bin", ".hzip">>, content |-> compress(<<66, 5>>).compressedData],
     [name |-> <<"short", ".hzip">>, content |-> <<72, 70, 0>>],
     [name |-> <<"notes.txt">>, content |-> <<1, 2, 3, 4, 5, 6, 7, 8, 9>>]}

FilesOf(component) ==
    IF component = "CompressionInterface" THEN CompressFiles ELSE DecompressFiles

\* no handler run in flight
NoRun == [pc |-> "idle"]

\* useState(...) of the component and of its FileUpload at mount: uploadFile
\* is FileUpload's selectedFile, busy is isCompressing / isDecompressing,
\* result is compressionResult / decompressionResult; toasts are the titles
\* the user has been shown and download is the last download sent
UiNew(component) ==
    [component |-> component, uploadFile |-> Null, selectedFile |-> Null,
     busy |-> FALSE, result |-> Null, processingTime |-> Null,
     toasts |-> {}, download |-> Null, run |-> NoRun]

UiInit ==
    /\ data = <<>>
    /\ NewInstance
    /\ alt = AltNone
    /\ \E component \in Components : ui = UiNew(component)

\* the codec call of the component
codec(component, b) ==
    IF component = "CompressionInterface" THEN compress(b) ELSE decompress(b)

\* FileUpload.onDrop with one accepted file, through onFileSelect to
\* handleFileSelect; the dropzone is rendered while FileUpload has no file
onDrop ==
    /\ ui.component \in Components
    /\ ui.uploadFile = Null
    /\ \E file \in FilesOf(ui.component) :
          ui' = [ui EXCEPT !.uploadFile = file,
                           !.selectedFile = file,
                           !.result = Null,
                           !.processingTime = Null]
    /\ UNCHANGED <<data, pc, huffmanCodes, c, cres, buf, dres, earlier, calls, alt>>

\* FileUpload.removeFile, the X button beside the file's name
removeFile ==
    /\ ui.component \in Components
    /\ ui.uploadFile # Null
    /\ ui' = [ui EXCEPT !.uploadFile = Null]
    /\ UNCHANGED <<data, pc, huffmanCodes, c, cres, buf, dres, earlier, calls, alt>>

\* handleReset, its button rendered while the component has a file
handleReset ==
    /\ ui.component \in Components
    /\ ui.selectedFile # Null
    /\ ui' = [ui EXCEPT !.selectedFile = Null, !.result = Null, !.processingTime = Null]
    /\ UNCHANGED <<data, pc, huffmanCodes, c, cres, buf, dres, earlier, calls, alt>>

\* the click handler up to its first await: the button is rendered while
\* the component has a file and disabled while busy
startRun ==
    /\ ui.selectedFile # Null
    /\ ~ui.busy
    /\ ui' = [ui EXCEPT !.busy = TRUE,
                        !.run = [pc |-> "reading", file |-> ui.selectedFile]]
    /\ UNCHANGED <<data, pc, huffmanCodes, c, cres, buf, dres, earlier, calls, alt>>

handleCompress == ui.component = "CompressionInterface" /\ startRun

handleDecompress == ui.component = "DecompressionInterface" /\ startRun

\* the toast titles of the component
CompleteTitle(component) ==
    IF component = "CompressionInterface" THEN "Compression Complete!" ELSE "Decompression Complete!"

FailedTitle(component) ==
    IF component = "CompressionInterface" THEN "Compression Failed" ELSE "Decompression Failed"

\* selectedFile.arrayBuffer() is fulfilled: the handler resumes, wraps the
\* content in a Uint8Array, makes the compressor and the promise, whose
\* executor sets the 100 ms timer, and awaits the promise
arrayBufferResolves ==
    /\ ui.component \in Components
    /\ ui.run.pc = "reading"
    /\ ui' = [ui EXCEPT !.run = [pc |-> "timer", file |-> ui.run.file,
                                 data |-> ui.run.file.content]]
    /\ UNCHANGED <<data, pc, huffmanCodes, c, cres, buf, dres, earlier, calls, alt>>

\* selectedFile.arrayBuffer() is rejected (the file can no longer be read):
\* the await throws inside the try, so the catch branch shows the failure
\* toast and the finally branch clears the busy flag
arrayBufferRejects ==
    /\ ui.component \in Components
    /\ ui.run.pc = "reading"
    /\ ui' = [ui EXCEPT !.toasts = ui.toasts \cup {FailedTitle(ui.component)},
                        !.busy = FALSE,
                        !.run = NoRun]
    /\ UNCHANGED <<data, pc, huffmanCodes, c, cres, buf, dres, earlier, calls, alt>>

\* the timer callback runs the codec.  When the codec returns, resolve is
\* called and the handler resumes in the microtask that follows, before any
\* other event: the result and the time are set, the completion toast is
\* shown and the finally branch clears the busy flag.  When the codec throws,
\* the exception leaves the timer callback: it is outside the executor and
\* outside the handler's try, resolve is never called and the promise has no
\* reject, so the handler stays at its await
timerFires ==
    /\ ui.component \in Components
    /\ ui.run.pc = "timer"
    /\ ui' = LET r == codec(ui.component, ui.run.data)
             IN IF r.status = "threw"
                THEN [ui EXCEPT !.run = [pc |-> "awaiting", file |-> ui.run.file,
                                         uncaught |-> r.message]]
                ELSE [ui EXCEPT !.result = r,
                                !.processingTime = [kind |-> "seconds"],
                                !.toasts = ui.toasts \cup {CompleteTitle(ui.component)},
                                !.busy = FALSE,
                                !.run = NoRun]
    /\ UNCHANGED <<data, pc, huffmanCodes, c, cres, buf, dres, earlier, calls, alt>>

\* the name handleDownload gives the download
downloadName(component, name) ==
    IF component = "CompressionInterface" THEN name \o <<".hzip">>
    ELSE IF name[Len(name)] = ".hzip" THEN SubSeq(name, 1, Len(name) - 1)
    ELSE <<"decompressed_">> \o name

\* the bytes handleDownload puts in the Blob
downloadData(component, result) ==
    IF component = "CompressionInterface" THEN result.compressedData
    ELSE result.decompressedData

\* handleDownload, its button rendered while there is a file and a result
handleDownload ==
    /\ ui.component \in Components
    /\ ui.result # Null
    /\ ui.selectedFile # Null
    /\ ui' = [ui EXCEPT !.download =
                            [name |-> downloadName(ui.component, ui.selectedFile.name),
                             data |-> downloadData(ui.component, ui.result)],
                        !.toasts = ui.toasts \cup {"Download Started"}]
    /\ UNCHANGED <<data, pc, huffmanCodes, c, cres, buf, dres, earlier, calls, alt>>

UiNext ==
    \/ onDrop
    \/ removeFile
    \/ handleReset
    \/ handleCompress
    \/ handleDecompress
    \/ arrayBufferResolves
    \/ arrayBufferRejects
    \/ timerFires
    \/ handleDownload

UiSpec == UiInit /\ [][UiNext]_vars

\* ------------------------------------------------------ shared predicates
\* compress has returned a CompressionResult
CompressReturned == cres.status = "returned"

\* a decompress call has ended
DecompressDone == pc \in {"decompressed", "decompressFailed"}

\* the decompress call that ended was given exactly the artifact of compress
DecompressedArtifact == DecompressDone /\ CompressReturned /\ buf = cres.compressedData

\* the decompress call that ended was given the artifact with at least one
\* payload byte cut off its end (header whole)
DecompressedTruncation ==
    /\ DecompressDone
    /\ CompressReturned
    /\ Len(buf) >= Len(cres.header)
    /\ Len(buf) < Len(cres.compressedData)
    /\ buf = SubSeq(cres.compressedData, 1, Len(buf))

\* a is a prefix of b
IsPrefix(a, b) == Len(a) <= Len(b) /\ SubSeq(b, 1, Len(a)) = a

\* the distinct byte values of a buffer
Distinct(b) == {b[i] : i \in 1..Len(b)}

\* the code a table gives a byte value
CodeOf(table, byte) == MapGet(table, byte)

\* the length of the longest key of a code-to-byte table
LongestCode(table) ==
    IF table = <<>> THEN 0
    ELSE LET lens == {Len(table[i][1]) : i \in 1..Len(table)}
         IN CHOOSE m \in lens : \A n \in lens : n <= m

\* ---------------------------------------------------------------- C1
\* C1: for every non-empty buffer B, decompress of compress(B).compressedData
\* returns, and its decompressedData equals B byte for byte.
C1_RoundTrip ==
    (DecompressedArtifact /\ Len(data) >= 1) =>
        (dres.status = "returned" /\ dres.decompressedData = data)

\* C1 witness: an artifact of an input with three distinct byte values and
\* codes of different lengths was decompressed back to the input
C1_Witness ==
    /\ DecompressedArtifact
    /\ Cardinality(Distinct(data)) >= 3
    /\ Len(data) >= 4
    /\ dres.status = "returned"
    /\ dres.decompressedData = data

\* ---------------------------------------------------------------- C2
\* C2: decompress of a valid artifact with at least one payload byte cut off
\* fails with an error; it never returns with fewer bytes than the header's
\* declared original length.
C2_TruncationRejected ==
    DecompressedTruncation =>
        /\ dres.status = "threw"
        /\ ~(dres.status = "returned" /\ Len(dres.decompressedData) < dres.originalSize)

\* ---------------------------------------------------------------- C3
\* C3: the code table returned by compress is prefix-free: for two distinct
\* byte values of the table neither code is a prefix of the other.
C3_PrefixFree ==
    CompressReturned =>
        \A i, j \in 1..Len(cres.huffmanCodes) :
            i # j => /\ cres.huffmanCodes[i][1] # cres.huffmanCodes[j][1]
                     /\ ~IsPrefix(cres.huffmanCodes[i][2], cres.huffmanCodes[j][2])

\* C3 witness: a returned table with four codes, of lengths 1, 2 and 3
C3_Witness ==
    /\ CompressReturned
    /\ Len(cres.huffmanCodes) = 4
    /\ {Len(cres.huffmanCodes[i][2]) : i \in 1..4} = {1, 2, 3}

\* ---------------------------------------------------------------- C4
\* the code bit-length bytes of the n table entries of a header, from offset
RECURSIVE HeaderLengths(_, _, _)
HeaderLengths(header, offset, n) ==
    IF n = 0 THEN <<>>
    ELSE <<At(header, offset + 1)>>
         \o HeaderLengths(header, offset + 2 + Ceil8(At(header, offset + 1)), n - 1)

\* C4: every code of the table compress produced has length at least 1, also
\* when the input has one distinct byte value; no zero-length code is in the
\* code table (the instance's or the returned one) or in the header.
C4_MinCodeLength ==
    CompressReturned =>
        /\ \A i \in 1..Len(cres.huffmanCodes) : Len(cres.huffmanCodes[i][2]) >= 1
        /\ \A i \in 1..Len(huffmanCodes) : Len(huffmanCodes[i][2]) >= 1
        /\ LET lens == HeaderLengths(cres.header, 8, Len(cres.huffmanCodes))
           IN \A i \in 1..Len(lens) : lens[i] >= 1

\* C4 witness: compress returned for an input of several copies of one byte value
C4_Witness ==
    /\ CompressReturned
    /\ Cardinality(Distinct(data)) = 1
    /\ Len(data) >= 2
    /\ Len(cres.huffmanCodes) = 1
    /\ Len(huffmanCodes) = 1

\* ---------------------------------------------------------------- C5
\* C5: compress of a zero-length buffer fails with an error and returns no
\* result, and decompress of a zero-length buffer fails with an error too.
C5_EmptyRejected ==
    /\ (pc # "new" /\ cres.status # "none" /\ Len(data) = 0) =>
           (cres.status = "threw" /\ huffmanCodes = <<>>)
    /\ (DecompressDone /\ Len(buf) = 0) => dres.status = "threw"

\* C5 witness: both calls were made on the empty buffer and both threw
C5_Witness ==
    /\ Len(data) = 0
    /\ cres.status = "threw"
    /\ pc = "decompressFailed"
    /\ Len(buf) = 0
    /\ dres.status = "threw"

\* ---------------------------------------------------------------- C6
\* the input of scenario 1, "AAAB"
AAAB == <<65, 65, 65, 66>>

\* C6 as stated: compress of [0x41, 0x41, 0x41, 0x42] gives frequencies
\* {0x41: 3, 0x42: 1}, the codes 0x41 -> "0" and 0x42 -> "1", a payload of one
\* byte with high bits 0001 and 4 zero padding bits, and a header declaring
\* original length 4 and symbol count 2.
C6_Scenario1AsClaimed ==
    (data = AAAB /\ CompressReturned) =>
        /\ c.frequencies = <<<<65, 3>>, <<66, 1>>>>
        /\ CodeOf(cres.huffmanCodes, 65) = <<0>>
        /\ CodeOf(cres.huffmanCodes, 66) = <<1>>
        /\ c.compressed = <<16>>
        /\ c.padding = 4
        /\ SubSeq(cres.header, 3, 6) = <<0, 0, 0, 4>>
        /\ SubSeq(cres.header, 7, 8) = <<0, 2>>

\* C6 amended: compress of [0x41, 0x41, 0x41, 0x42] gives frequencies
\* {0x41: 3, 0x42: 1}, the codes 0x42 -> "0" and 0x41 -> "1" (the lighter node
\* is extracted first and becomes the zero-child), a payload of one byte with
\* high bits 1110 and 4 zero padding bits, and a header declaring original
\* length 4 and symbol count 2.
C6_Scenario1 ==
    (data = AAAB /\ CompressReturned) =>
        /\ c.frequencies = <<<<65, 3>>, <<66, 1>>>>
        /\ Len(cres.huffmanCodes) = 2
        /\ CodeOf(cres.huffmanCodes, 66) = <<0>>
        /\ CodeOf(cres.huffmanCodes, 65) = <<1>>
        /\ c.compressed = <<224>>
        /\ c.padding = 4
        /\ cres.header[Len(cres.header)] = 4
        /\ SubSeq(cres.header, 3, 6) = <<0, 0, 0, 4>>
        /\ SubSeq(cres.header, 7, 8) = <<0, 2>>

\* C6 witness: compress has returned for the input "AAAB"
C6_Witness == data = AAAB /\ pc = "compressed" /\ CompressReturned /\ Len(c.compressed) = 1

\* ---------------------------------------------------------------- C7
\* the buffer is n >= 1 copies of one byte value
IsRun(b) == Len(b) >= 1 /\ Cardinality(Distinct(b)) = 1

\* C7: for an input of n >= 1 copies of one byte value b, compress gives b the
\* one-bit code "0", the payload is ceil(n/8) zero bytes, the padding is
\* (8 - n mod 8) mod 8, and decompress of the artifact returns the n bytes.
C7_SingleValue ==
    (IsRun(data) /\ CompressReturned) =>
        LET n == Len(data)
        IN /\ cres.huffmanCodes = <<<<data[1], <<0>>>>>>
           /\ c.compressed = [k \in 1..((n + 7) \div 8) |-> 0]
           /\ c.padding = (8 - (n % 8)) % 8
           /\ cres.header[Len(cres.header)] = (8 - (n % 8)) % 8
           /\ DecompressedArtifact =>
                  (dres.status = "returned" /\ dres.decompressedData = data)

\* C7 witness: the artifact of more than 8 copies of one byte value (a payload
\* of two bytes) was decompressed
C7_Witness ==
    /\ IsRun(data)
    /\ Len(data) > 8
    /\ DecompressedArtifact
    /\ Len(c.compressed) = 2
    /\ dres.status = "returned"

\* ---------------------------------------------------------------- C8
\* T: the sum over the input bytes b[i..] of the length of the byte's code
RECURSIVE SumCodeBits(_, _, _)
SumCodeBits(b, i, table) ==
    IF i > Len(b) THEN 0 ELSE Len(CodeOf(table, b[i])) + SumCodeBits(b, i + 1, table)

\* C8: compressedSize equals header.length + ceil(T / 8), T the sum over all
\* input bytes of the length of the byte's code, and originalSize equals the
\* input length.
C8_SizeAccounting ==
    CompressReturned =>
        LET T == SumCodeBits(data, 1, cres.huffmanCodes)
        IN /\ cres.compressedSize = Len(cres.header) + ((T + 7) \div 8)
           /\ cres.compressedSize = Len(cres.compressedData)
           /\ cres.originalSize = Len(data)

\* C8 witness: compress returned with T above 8 and not a multiple of 8
C8_Witness ==
    /\ CompressReturned
    /\ SumCodeBits(data, 1, cres.huffmanCodes) > 8
    /\ SumCodeBits(data, 1, cres.huffmanCodes) % 8 # 0
    /\ Cardinality(Distinct(data)) >= 2

\* ---------------------------------------------------------------- C9
\* C9: decompress fails with an error whenever the bit accumulator becomes
\* longer than the longest code of the header's table without matching; it
\* never returns a result in that situation.  (An accumulator longer than
\* every code can no longer match, so it is still that long when the decoding
\* loops end.)
C9_UnknownCodeRejected ==
    (DecompressDone /\ dres.status = "returned") =>
        Len(dres.currentCode) <= LongestCode(dres.codeToChar)

\* --------------------------------------------------------------- C10
\* C10: decompress fails with an error whenever the declared symbol count
\* makes the code-table read run past the end of the buffer; it never returns
\* a result then.  (The table is read at offsets 8 .. tableEnd - 1.)
C10_TableOverrunRejected ==
    (DecompressDone /\ dres.status = "returned") => dres.tableEnd <= Len(buf)

\* --------------------------------------------------------------- C11
\* some table entry of the buffer, among the n entries read from offset,
\* declares the code bit-length 0 (the length byte lies inside the buffer)
RECURSIVE ZeroLengthEntry(_, _, _)
ZeroLengthEntry(b, offset, n) ==
    IF n = 0 \/ offset + 1 >= Len(b) THEN FALSE
    ELSE \/ At(b, offset + 1) = 0
         \/ ZeroLengthEntry(b, offset + 2 + Ceil8(At(b, offset + 1)), n - 1)

\* the symbol count a buffer declares in its bytes 6 and 7
DeclaredCount(b) == At(b, 6) * 256 + At(b, 7)

\* the buffer is long enough and starts with the marker 0x48 0x46
WellMarked(b) == Len(b) >= 8 /\ At(b, 0) = 72 /\ At(b, 1) = 70

\* C11: decompress fails with an error whenever a symbol entry of the header
\* declares a code bit-length of 0.
C11_ZeroLengthRejected ==
    (DecompressDone /\ WellMarked(buf) /\ ZeroLengthEntry(buf, 8, DeclaredCount(buf))) =>
        dres.status = "threw"

\* --------------------------------------------------------------- C12
\* C12: decompress fails with an error for every buffer of at least 8 bytes
\* whose first two bytes are not the marker 0x48 0x46, and it produces no
\* output then; every artifact compress returns starts with those two bytes.
C12_MarkerChecked ==
    /\ (DecompressDone /\ Len(buf) >= 8 /\ ~WellMarked(buf)) =>
           (dres.status = "threw" /\ "decompressedData" \notin DOMAIN dres)
    /\ CompressReturned =>
           (At(cres.compressedData, 0) = 72 /\ At(cres.compressedData, 1) = 70)

\* C12 witness: decompress threw on an artifact whose second marker byte alone
\* was overwritten
C12_Witness ==
    /\ pc = "decompressFailed"
    /\ CompressReturned
    /\ Len(buf) = Len(cres.compressedData)
    /\ At(buf, 0) = 72
    /\ At(buf, 1) # 70
    /\ dres.status = "threw"

\* --------------------------------------------------------------- C13
\* the sum of the counts of the entries k.. of a frequency table
RECURSIVE SumCounts(_, _)
SumCounts(frequencies, k) ==
    IF k > Len(frequencies) THEN 0 ELSE frequencies[k][2] + SumCounts(frequencies, k + 1)

\* compress has computed the frequency table of its input
FrequenciesBuilt == pc \in {"codes", "sizes", "pack", "compressed"}

\* C13: for every non-empty input the counts of the table parseFrequencies
\* builds sum to the input length, the keys are exactly the distinct byte
\* values of the input (each once), and no entry has count 0.
C13_FrequencyAccounting ==
    FrequenciesBuilt =>
        /\ SumCounts(c.frequencies, 1) = Len(data)
        /\ {c.frequencies[k][1] : k \in 1..Len(c.frequencies)} = Distinct(data)
        /\ Len(c.frequencies) = Cardinality(Distinct(data))
        /\ \A k \in 1..Len(c.frequencies) :
               /\ c.frequencies[k][2] >= 1
               /\ c.frequencies[k][2] = Cardinality({i \in 1..Len(data) : data[i] = c.frequencies[k][1]})

\* C13 witness: the table of an input with three distinct byte values, one of
\* them repeated
C13_Witness ==
    /\ pc = "codes"
    /\ Len(c.frequencies) = 3
    /\ Len(data) = 4
    /\ \E k \in 1..3 : c.frequencies[k][2] = 2

\* --------------------------------------------------------------- C14
\* the offset in the header of the k-th table entry (k from 1), the entries
\* of a table starting at offset 8
RECURSIVE EntryOffset(_, _)
EntryOffset(table, k) ==
    IF k = 1 THEN 8
    ELSE EntryOffset(table, k - 1) + 2 + ((Len(table[k - 1][2]) + 7) \div 8)

C15_UnsignedOriginalSize ==
    (DecompressDone /\ dres.status = "returned") =>
        /\ dres.originalSize >= 0
        /\ dres.originalSize \div 16777216 = At(buf, 2)
        /\ dres.originalSize % 16777216 = At(buf, 3) * 65536 + At(buf, 4) * 256 + At(buf, 5)

\* --------------------------------------------------------------- C16
\* the entries the caller finds in the huffmanCodes map of a CompressionResult
\* it holds: those of this.huffmanCodes if the map is that very object
ResultMap(result) ==
    IF result.huffmanCodesMap.shared THEN huffmanCodes ELSE result.huffmanCodesMap.entries

\* what the caller reads in a CompressionResult
ResultView(result) ==
    [compressedData |-> result.compressedData,
     originalSize   |-> result.originalSize,
     compressedSize |-> result.compressedSize,
     huffmanCodes   |-> ResultMap(result),
     header         |-> result.header]

\* the table the last compress call that got past its empty-input check left
\* in this.huffmanCodes
LastTable ==
    IF CompressReturned THEN cres.huffmanCodes
    ELSE IF earlier # <<>> THEN earlier[Len(earlier)].result.huffmanCodes
    ELSE <<>>

\* C16: calls on one instance are independent: compress(B) returns the same
\* result whatever compress or decompress calls came before on the instance,
\* a later compress call leaves the huffmanCodes map of an earlier
\* CompressionResult as it was returned, and decompress leaves the instance's
\* code table as the last compress call left it.
C16_CallsIndependent ==
    /\ CompressReturned =>
           \A k \in 1..Len(earlier) :
               earlier[k].data = data => ResultView(earlier[k].result) = ResultView(cres)
    /\ \A k \in 1..Len(earlier) :
           ResultMap(earlier[k].result) = earlier[k].result.huffmanCodes
    /\ CompressReturned => ResultMap(cres) = cres.huffmanCodes
    /\ pc \in {"new", "compressed", "compressFailed", "decompressed", "decompressFailed"} =>
           huffmanCodes = LastTable

\* C16 witness: the third buffer brought to the instance is the first one
\* again, a different one was compressed in between, and the third artifact
\* has been decompressed
C16_Witness ==
    /\ calls = 3
    /\ Len(earlier) = 2
    /\ earlier[1].data = data
    /\ earlier[2].data # data
    /\ Distinct(earlier[2].data) \ Distinct(data) # {}
    /\ DecompressedArtifact
    /\ dres.status = "returned"

\* --------------------------------------------------------------- C17
\* C17: for every buffer on which decompress returns, the number of decoded
\* bytes never exceeds the declared original length, for every declared
\* value including 0.  (A field with the top bit set is read as a negative
\* originalSize; such buffers are left out here, the declared value being
\* above every count.)
C17_DecodedWithinDeclared ==
    (DecompressDone /\ dres.status = "returned" /\ dres.originalSize >= 0) =>
        Len(dres.decompressedData) <= dres.originalSize

\* --------------------------------------------------------------- C18
\* the weights of the nodes a heap holds, by position
Weights(minHeap) == [i \in 1..minHeap.size |-> minHeap.array[i].freq]

RECURSIVE SumSeq(_, _)
SumSeq(w, k) == IF k > Len(w) THEN 0 ELSE w[k] + SumSeq(w, k + 1)

\* a and b are the weights of two nodes of the collection, and no other node
\* of it is lighter than either
TwoSmallest(w, a, b) ==
    \E i, j \in 1..Len(w) :
        /\ i # j
        /\ w[i] = a
        /\ w[j] = b
        /\ \A k \in 1..Len(w) : (k # i /\ k # j) => (w[k] >= a /\ w[k] >= b)

\* C18: in generateHuffmanTree, for inputs with two or more distinct byte
\* values, every merge step removes the two nodes whose weights are the two
\* smallest of the working collection, the merged node's weight is their sum,
\* and the loop ends with one node, the root, whose weight is the input length.
C18_MergeSteps ==
    (FrequenciesBuilt /\ Len(c.frequencies) >= 2) =>
        LET start == initialHeap(c.frequencies)
            steps == mergeSteps(start)
            final == mergeLoop(start)
        IN /\ Len(steps) = Len(c.frequencies) - 1
           /\ \A s \in 1..Len(steps) :
                  /\ TwoSmallest(Weights(steps[s].minHeap), steps[s].left.freq, steps[s].right.freq)
                  /\ steps[s].left.freq <= steps[s].right.freq
                  /\ steps[s].merged.freq = steps[s].left.freq + steps[s].right.freq
                  /\ steps[s].merged.l = steps[s].left
                  /\ steps[s].merged.r = steps[s].right
                  /\ steps[s].after.size = steps[s].minHeap.size - 1
                  /\ SumSeq(Weights(steps[s].after), 1) = Len(data)
                  /\ \E i \in 1..steps[s].after.size : steps[s].after.array[i] = steps[s].merged
           /\ steps[Len(steps)].after = final
           /\ final.size = 1
           /\ final.array[1].freq = Len(data)
           /\ generateHuffmanTree(c.frequencies) = final.array[1]
           /\ generateHuffmanTree(c.frequencies).freq = Len(data)

\* C18 witness: the tree of an input with four distinct byte values of
\* weights 1, 2, 3 and 4 has been built in three merge steps
C18_Witness ==
    /\ pc = "sizes"
    /\ Len(c.frequencies) = 4
    /\ {c.frequencies[k][2] : k \in 1..4} = {1, 2, 3, 4}
    /\ Len(mergeSteps(initialHeap(c.frequencies))) = 3

\* --------------------------------------------------------------- C19
\* bit p (from 0, high bit first) of the code bytes that follow offset
CodeBitAt(b, offset, p) == BitOf(At(b, offset + (p \div 8)), 7 - (p % 8))

\* C19: parsing the header compress wrote reconstructs the compressor's code
\* table: each entry holds the byte value, the code bit-length (1 to 255) and
\* ceil(bitlength / 8) bytes with the code packed high bit first and the
\* unused trailing bits 0, and the code-to-byte map decompress builds is the
\* inverse of the huffmanCodes map compress returned.
C19_HeaderParse ==
    (DecompressedArtifact /\ dres.status = "returned") =>
        LET table == cres.huffmanCodes
            N == Len(table)
        IN /\ \A k \in 1..N :
                  LET at == EntryOffset(table, k)
                      code == table[k][2]
                      size == EntryOffset(table, k + 1) - at
                  IN /\ At(buf, at) = table[k][1]
                     /\ At(buf, at + 1) = Len(code)
                     /\ Len(code) \in 1..255
                     /\ size = 2 + ((Len(code) + 7) \div 8)
                     /\ \A p \in 0..(8 * (size - 2) - 1) :
                            CodeBitAt(buf, at + 2, p) = IF p < Len(code) THEN code[p + 1] ELSE 0
           /\ dres.tableEnd = EntryOffset(table, N + 1)
           /\ Len(dres.codeToChar) = N
           /\ \A k \in 1..N : MapGet(dres.codeToChar, table[k][2]) = table[k][1]
           /\ \A k \in 1..N : MapGet(table, dres.codeToChar[k][2]) = dres.codeToChar[k][1]

\* C19 witness: the header of a table with codes of lengths 1, 2 and 3, some
\* with 1 bits, was parsed
C19_Witness ==
    /\ DecompressedArtifact
    /\ dres.status = "returned"
    /\ Len(dres.codeToChar) = 4
    /\ \E k \in 1..4 : dres.codeToChar[k][1] = <<1, 1, 0>>
    /\ \E k \in 1..4 : dres.codeToChar[k][1] = <<1, 0>>

\* --------------------------------------------------------------- C20
\* C20: for every non-empty input the padding value compress records in the
\* header is in 0..7, equals (8 - T mod 8) mod 8 for T the total number of
\* code bits, and is the number of low-order bits of the last payload byte
\* that carry no code bit; those bits are all 0.
C20_Padding ==
    CompressReturned =>
        LET T == SumCodeBits(data, 1, cres.huffmanCodes)
            recorded == cres.header[Len(cres.header)]
            payload == SliceFrom(cres.compressedData, Len(cres.header))
        IN /\ recorded \in 0..7
           /\ recorded = c.padding
           /\ recorded = (8 - (T % 8)) % 8
           /\ Len(payload) >= 1
           /\ recorded = 8 * Len(payload) - T
           /\ payload[Len(payload)] % (2 ^ recorded) = 0

\* C20 witness: compress returned a payload whose last byte has code bits set
\* above 2 to 7 padding bits
C20_Witness ==
    /\ CompressReturned
    /\ c.padding \in 2..7
    /\ c.compressed[Len(c.compressed)] # 0
    /\ Cardinality(Distinct(data)) >= 2

\* C20 witness of the other case: a payload that ends on a byte boundary,
\* recorded with padding 0
C20_WitnessFull ==
    /\ CompressReturned
    /\ c.padding = 0
    /\ SumCodeBits(data, 1, cres.huffmanCodes) = 8

\* --------------------------------------------------------------- C21
\* C21: the payload buffer is allocated once with ceil(T / 8) bytes before
\* packing, and during the packing pass every write index (byteIndex) is in
\* 0..ceil(T / 8) - 1, so no write falls outside the buffer, and every payload
\* byte is written exactly once.
C21_WritesInBuffer ==
    (pc \in {"pack", "compressed"}) =>
        LET T == SumCodeBits(data, 1, huffmanCodes)
            size == (T + 7) \div 8
        IN /\ Len(c.compressed) = size
           /\ c.totalBits = T
           /\ \A w \in 1..Len(c.writes) : c.writes[w] \in 0..(size - 1)
           /\ \A w \in 1..Len(c.writes) : c.writes[w] = w - 1
           /\ (pc = "pack") => Len(c.writes) = c.byteIndex
           /\ (pc = "compressed") => Len(c.writes) = size

\* C21 witness: compress returned a payload of three bytes, the last one
\* partly filled, each written once
C21_Witness ==
    /\ pc = "compressed"
    /\ Len(c.compressed) = 3
    /\ c.writes = <<0, 1, 2>>
    /\ c.bitPosition > 0

\* --------------------------------------------------------------- C22
\* C22: in the sorted-list variant an input with exactly one distinct byte
\* value receives the one-bit code "0" for that byte.
C22_SingleValueZero ==
    (alt.pc = "bits" /\ IsRun(alt.data)) =>
        alt.huffmanCodes = <<<<alt.data[1], <<0>>>>>>

\* --------------------------------------------------------------- C23
\* the decompress call of a variant has ended
AltDecompressDone == alt.pc \in {"decompressed", "decompressFailed"}

\* C23: in the packed variant with a 1-byte symbol count, for every non-empty
\* input with 1 to 256 distinct byte values, the symbol count decompress
\* reads from the header equals the number of code entries compress wrote,
\* and decompress of the artifact returns the input.
C23_PackedRoundTrip ==
    /\ (alt.variant = "packed" /\ alt.pc \in {"table", "decode", "decompressed", "decompressFailed"}) =>
           alt.uniqueCharCount = Len(alt.huffmanCodes)
    /\ (alt.variant = "packed" /\ AltDecompressDone) =>
           (alt.result.status = "returned" /\ alt.result.decompressedData = alt.data)

\* --------------------------------------------------------------- C24
\* C24: in the raw variant with a count-minus-one header, decompress of the
\* artifact of compress(B) returns B for every non-empty buffer B, including
\* inputs with one distinct byte value and inputs with all 256 byte values.
C24_RawRoundTrip ==
    /\ (alt.variant = "raw" /\ alt.pc \in {"table", "decode", "decompressed", "decompressFailed"}) =>
           alt.uniqueCharCount = Len(alt.huffmanCodes)
    /\ (alt.variant = "raw" /\ AltDecompressDone) =>
           (alt.result.status = "returned" /\ alt.result.decompressedData = alt.data)

\* C24 witness: the raw variant decompressed the artifact of an input of
\* two or more copies of one byte value and returned
C24_Witness ==
    /\ alt.variant = "raw"
    /\ alt.pc = "decompressed"
    /\ IsRun(alt.data) /\ Len(alt.data) >= 2
    /\ alt.result.status = "returned"

\* --------------------------------------------------------------- C29
\* the live part of the heap array is in min-heap order
HeapOrdered(minHeap) ==
    \A i \in 1..(minHeap.size - 1) :
        minHeap.array[((i - 1) \div 2) + 1].freq <= minHeap.array[i + 1].freq

\* the size is within 0..capacity and the array is the allocated one
SizeWithin(minHeap, capacity) ==
    /\ minHeap.size \in 0..capacity
    /\ Len(minHeap.array) = capacity

\* node is a live node of the heap and no live node has a smaller freq
MinimumOf(node, minHeap) ==
    /\ \E i \in 1..minHeap.size : minHeap.array[i] = node
    /\ \A i \in 1..minHeap.size : node.freq <= minHeap.array[i].freq

\* C29: during generateHuffmanTree, after createAndBuildMin_Heap and after
\* every extractMin and insertMinHeap, the live part of the heap array is in
\* min-heap order, size is within 0..the allocated capacity, and extractMin
\* returned a node of minimum freq among the live nodes.
C29_HeapInvariant ==
    (pc = "sizes" /\ Len(c.frequencies) >= 2) =>
        LET capacity == Len(c.frequencies)
            start == initialHeap(c.frequencies)
            steps == mergeSteps(start)
            final == mergeLoop(start)
            last == extractMin(final)
            Good(h) == HeapOrdered(h) /\ SizeWithin(h, capacity)
        IN /\ Good(start)
           /\ start.size = capacity
           /\ \A s \in 1..Len(steps) :
                  /\ MinimumOf(steps[s].left, steps[s].minHeap)
                  /\ Good(steps[s].afterLeft)
                  /\ MinimumOf(steps[s].right, steps[s].afterLeft)
                  /\ Good(steps[s].afterRight)
                  /\ Good(steps[s].after)
           /\ MinimumOf(last[1], final)
           /\ Good(last[2])
           /\ last[2].size = 0

\* C29 witness: a tree was built from four nodes where createAndBuildMin_Heap
\* had to reorder the array and an insertMinHeap had to sift the merged node
\* up past its parent
C29_Witness ==
    /\ pc = "sizes"
    /\ Len(c.frequencies) = 4
    /\ LET start == initialHeap(c.frequencies)
           steps == mergeSteps(start)
       IN /\ [i \in 1..4 |-> start.array[i].freq] # [i \in 1..4 |-> c.frequencies[i][2]]
          /\ \E s \in 1..Len(steps) :
                 steps[s].after.array[steps[s].after.size] # steps[s].merged

\* --------------------------------------------------------------- C28
\* how many times a byte value occurs in a buffer
Count(b, byte) == Cardinality({i \in 1..Len(b) : b[i] = byte})

RECURSIVE Pow2(_)
Pow2(n) == IF n = 0 THEN 1 ELSE 2 * Pow2(n - 1)

\* Kraft's inequality for the code lengths len[1..n], all within 1..n,
\* multiplied through by 2^n: a prefix-free table with these code lengths
\* exists if and only if it holds
Kraft(len, n) ==
    LET RECURSIVE Sum(_)
        Sum(k) == IF k = 0 THEN 0 ELSE Pow2(n - len[k]) + Sum(k - 1)
    IN Sum(n) <= Pow2(n)

\* the payload bits of buffer b when the k-th byte value of values gets a
\* code of len[k] bits
CostOf(b, values, len) ==
    LET RECURSIVE Sum(_)
        Sum(k) == IF k = 0 THEN 0 ELSE Count(b, values[k]) * len[k] + Sum(k - 1)
    IN Sum(Len(values))

\* C28: for every non-empty input with at least two distinct byte values, the
\* code table compress produced is optimal: the sum over the byte values of
\* frequency times code length is the minimum over the prefix-free code
\* tables for the input's frequencies (over their code lengths, each of 1 to
\* n bits for n byte values, that satisfy Kraft's inequality).
C28_Optimal ==
    (pc = "compressed" /\ Cardinality(Distinct(data)) >= 2) =>
        LET table == cres.huffmanCodes
            n == Len(table)
            values == [k \in 1..n |-> table[k][1]]
            produced == [k \in 1..n |-> Len(table[k][2])]
        IN /\ {values[k] : k \in 1..n} = Distinct(data)
           /\ n = Cardinality(Distinct(data))
           /\ Kraft(produced, n)
           /\ \A len \in [1..n -> 1..n] :
                  Kraft(len, n) => CostOf(data, values, produced) <= CostOf(data, values, len)

\* C28 witness: a returned table for four byte values whose frequencies
\* differ, where the balanced table of 2-bit codes costs more
C28_Witness ==
    /\ pc = "compressed"
    /\ Len(cres.huffmanCodes) = 4
    /\ LET values == [k \in 1..4 |-> cres.huffmanCodes[k][1]]
           produced == [k \in 1..4 |-> Len(cres.huffmanCodes[k][2])]
       IN CostOf(data, values, produced) < CostOf(data, values, [k \in 1..4 |-> 2])

\* --------------------------------------------------------------- C25
\* the run in flight has a step the event loop will take
RunCanStep == ui.run.pc \in {"reading", "timer"}

\* the codec call of the run in flight has thrown
CodecThrew == ui.run.pc = "awaiting"

\* C25: in DecompressionInterface, every handleDecompress run that sets
\* isDecompressing to true sets it back to false, and when decompress throws
\* the catch branch runs and the "Decompression Failed" toast is shown: while
\* isDecompressing is true the run has a step left to take, and a run whose
\* decompress call has thrown has shown the toast.
C25_DecompressRunEnds ==
    ui.component = "DecompressionInterface" =>
        /\ ui.busy => RunCanStep
        /\ CodecThrew => "Decompression Failed" \in ui.toasts

\* --------------------------------------------------------------- C26
\* C26: in CompressionInterface, every handleCompress run that sets
\* isCompressing to true sets it back to false, and when compress throws the
\* catch branch runs and the "Compression Failed" toast is shown: while
\* isCompressing is true the run has a step left to take, and a run whose
\* compress call has thrown has shown the toast.
C26_CompressRunEnds ==
    ui.component = "CompressionInterface" =>
        /\ ui.busy => RunCanStep
        /\ CodecThrew => "Compression Failed" \in ui.toasts

\* --------------------------------------------------------------- C27
\* C27: in CompressionInterface, whenever compressionResult is non-null it
\* was computed from the file held in selectedFile, under every interleaving
\* of file selection, removeFile and a new drop, handleReset and a
\* handleCompress in flight; and no download is named after one file while
\* it carries another file's compressed data.
C27_ResultOfSelectedFile ==
    ui.component = "CompressionInterface" =>
        /\ ui.result # Null =>
              /\ ui.selectedFile # Null
              /\ ui.result = compress(ui.selectedFile.content)
        /\ ui.download # Null =>
              \E file \in CompressFiles :
                  /\ ui.download.name = file.name \o <<".hzip">>
                  /\ ui.download.data = compress(file.content).compressedData

====
